---- MODULE Spec2Model ----
(***************************************************************************)
(* A model of scripts/configure-tauri.mjs: the script that validates the   *)
(* build environment, edits the Tauri/Pake configuration objects, resolves *)
(* the platform icon through a tiered fallback and rewrites the JSON       *)
(* configuration files.                                                    *)
(*                                                                         *)
(* Strings that the script only copies or concatenates are TLA+ strings;   *)
(* strings it parses (WIDTH, HEIGHT, ICON) are sequences of one-character  *)
(* strings.  process.env is a function whose domain is the set of          *)
(* variables that are set; the file system is a function whose domain is   *)
(* the set of files that exist.                                            *)
(***************************************************************************)
EXTENDS Integers, Sequences, FiniteSets, TLC

VARIABLES
    env,         \* process.env
    platform,    \* os.platform()
    pc,          \* position of main()
    exitCode,    \* process exit status, meaningful when pc = "exited"
    pakeJson,    \* in-memory src-tauri/pake.json
    tauriJson,   \* in-memory src-tauri/tauri.conf.json
    linuxJson,   \* in-memory src-tauri/tauri.linux.conf.json
    macosJson,   \* in-memory src-tauri/tauri.macos.conf.json
    windowsJson, \* in-memory src-tauri/tauri.windows.conf.json
    disk,        \* the five configuration files on disk (serialized)
    fs,          \* icon files on disk: path -> content
    desktop,     \* the desktop entry file: <<>> or <<content>>
    dirState,    \* asset directories: "ok", "ro" (not writable), "none"
    magick,      \* whether this build of sharp decodes icon containers
    ei,          \* the frame of the running ensureIconExists call
    hl,          \* the handler's locals (darwin: sourceIcon, loop index)
    log,         \* console lines of this process
    ops,         \* network / conversion / file operations of this process
    run,         \* number of the current invocation of the script
    hist         \* history: the files at the start of this run, and whether
                 \* the first run started with every asset of the platform

vars == <<env, platform, pc, exitCode, pakeJson, tauriJson, linuxJson,
          macosJson, windowsJson, disk, fs, desktop, dirState, magick, ei, hl,
          log, ops, run, hist>>

confVars == <<pakeJson, tauriJson, linuxJson, macosJson, windowsJson>>

\* what no step of a process changes: its environment and its toolchain
envVars == <<env, platform, magick, run, hist>>

-----------------------------------------------------------------------------
(* Bounds *)

\* how many times the script is invoked in a row on the same checkout
MaxRuns == 2

(* Program constants *)

\* resize(512, 512, ...) for PNG targets
PngSize == 512
\* const size = isPng ? 512 : 256
OtherSize == 256

-----------------------------------------------------------------------------
(* process.env *)

requiredEnvVars == <<"URL", "NAME", "TITLE", "NAME_ZH">>

Range(s) == {s[i] : i \in DOMAIN s}

Has(k) == k \in DOMAIN env

\* mutant: a presence test in place of the truthiness test
TruthyIfSet(k) == k \in DOMAIN env

\* JavaScript truthiness of process.env[k]: set and not the empty string
Truthy(k) == Has(k) /\ Len(env[k]) > 0

\* String.prototype.startsWith on a sequence of characters
StartsWith(s, p) == Len(s) >= Len(p) /\ SubSeq(s, 1, Len(p)) = p

Http == <<"h", "t", "t", "p">>

DigitVal == ("0" :> 0) @@ ("1" :> 1) @@ ("2" :> 2) @@ ("3" :> 3) @@ ("4" :> 4)
            @@ ("5" :> 5) @@ ("6" :> 6) @@ ("7" :> 7) @@ ("8" :> 8) @@ ("9" :> 9)

IsDigit(c) == c \in DOMAIN DigitVal

RECURSIVE SkipSpace(_)
SkipSpace(s) == IF s # <<>> /\ Head(s) = " " THEN SkipSpace(Tail(s)) ELSE s

RECURSIVE DigitsValue(_, _, _)
\* value of the longest prefix of digits of s, acc the value read so far, and
\* n the number of digits read
DigitsValue(s, acc, n) ==
    IF s # <<>> /\ IsDigit(Head(s))
    THEN DigitsValue(Tail(s), 10 * acc + DigitVal[Head(s)], n + 1)
    ELSE [val |-> acc, count |-> n]

\* parseInt(string): skips leading blanks, reads an optional sign and the
\* longest prefix of decimal digits; NaN when there is no digit
NaN == [k |-> "nan", n |-> 0]
Null == [k |-> "null", n |-> 0]
Num(n) == [k |-> "num", n |-> n]

parseInt(str) ==
    LET s == SkipSpace(str)
        neg == s # <<>> /\ Head(s) = "-"
        body == IF s # <<>> /\ Head(s) \in {"-", "+"} THEN Tail(s) ELSE s
        d == DigitsValue(body, 0, 0)
    IN  IF d.count = 0 THEN NaN
        ELSE Num(IF neg THEN 0 - d.val ELSE d.val)

-----------------------------------------------------------------------------
(* CONFIG *)

identifier == "com.pake." \o env["NAME"]
productName == "com-pake-" \o env["NAME"]

\* Paths are written relative to src-tauri, with the value of NAME kept
\* symbolic: the script computes them once per process from the same NAME.
NamePng == "png/NAME_512.png"
NameIcns == "icons/NAME.icns"
NameIco == "png/NAME_256.ico"
IconIcns == "icons/icon.icns"
Icon512 == "png/icon_512.png"
Icon256 == "png/icon_256.png"
Icon128 == "png/icon_128.png"
Icon32Ico == "png/icon_32.ico"
Icon256Ico == "png/icon_256.ico"

Platforms ==
    [linux |-> [iconPath |-> NamePng, defaultIcon |-> Icon512,
                icons |-> <<NamePng>>, resources |-> <<>>],
     darwin |-> [iconPath |-> NameIcns, defaultIcon |-> IconIcns,
                 icons |-> <<NameIcns>>, resources |-> <<>>],
     win32 |-> [iconPath |-> NameIco, defaultIcon |-> Icon256Ico,
                icons |-> <<NameIco>>, resources |-> <<NameIco>>]]

desktopEntry ==
    [Exec |-> productName, Icon |-> productName, Name |-> productName,
     NameZh |-> env["NAME_ZH"]]

desktopConfig ==
    <<"/usr/share/applications/" \o productName \o ".desktop",
      "assets/" \o productName \o ".desktop">>

\* the directory of a path, and its extension
DirOf(p) == IF p \in {NameIcns, IconIcns} THEN "icons" ELSE "png"
ExtOf(p) ==
    IF p \in {NamePng, Icon512, Icon256, Icon128} THEN "png"
    ELSE IF p \in {NameIco, Icon32Ico, Icon256Ico} THEN "ico" ELSE "icns"

-----------------------------------------------------------------------------
(* console *)

Line(lvl, msg, about) == [lvl |-> lvl, msg |-> msg, about |-> about]
Op(op, path, src) == [op |-> op, path |-> path, src |-> src]

-----------------------------------------------------------------------------
(* validateEnvironment *)

Missing == {k \in Range(requiredEnvVars) : ~Has(k)}

validateEnvironment ==
    /\ pc = "start"
    /\ IF Missing # {}
       THEN /\ log' = Append(log, Line("error", "missing_env", ""))
            /\ pc' = "exited"
            /\ exitCode' = 1
       ELSE /\ log' = Append(log, Line("log", "environment", ""))
            /\ pc' = "base"
            /\ UNCHANGED exitCode
    /\ UNCHANGED <<confVars, disk, fs, desktop, dirState, ei,
                   hl, ops, envVars>>

-----------------------------------------------------------------------------
(* updateBaseConfigs *)

IsTrue(k) == env[k] = "true"

updateBaseConfigs ==
    /\ pc = "base"
    /\ pakeJson' =
         [pakeJson EXCEPT
            !.url = env["URL"],
            !.width = IF Truthy("WIDTH") THEN parseInt(env["WIDTH"]) ELSE @,
            !.height = IF Truthy("HEIGHT") THEN parseInt(env["HEIGHT"]) ELSE @,
            !.fullscreen = IF Truthy("FULLSCREEN") THEN IsTrue("FULLSCREEN") ELSE @,
            !.hide_title_bar =
                IF Truthy("HIDE_TITLE_BAR") THEN IsTrue("HIDE_TITLE_BAR") ELSE @,
            !.force_internal_navigation =
                IF Truthy("FORCE_INTERNAL_NAVIGATION")
                THEN IsTrue("FORCE_INTERNAL_NAVIGATION") ELSE @,
            !.tray_macos =
                IF Truthy("SHOW_SYSTEM_TRAY") THEN IsTrue("SHOW_SYSTEM_TRAY") ELSE @,
            !.tray_linux =
                IF Truthy("SHOW_SYSTEM_TRAY") THEN IsTrue("SHOW_SYSTEM_TRAY") ELSE @,
            !.tray_windows =
                IF Truthy("SHOW_SYSTEM_TRAY") THEN IsTrue("SHOW_SYSTEM_TRAY") ELSE @,
            !.system_tray_path =
                IF Len(@) > 0 THEN "icons/" \o env["NAME"] \o ".png" ELSE @]
    /\ tauriJson' =
         [tauriJson EXCEPT
            !.productName = env["TITLE"],
            !.identifier = identifier,
            !.trayIconPath =
                IF @ # <<>> THEN <<"png/" \o env["NAME"] \o "_512.png">> ELSE @]
    /\ log' = Append(log, Line("log", "base_configs", ""))
    /\ pc' = "platform"
    /\ UNCHANGED <<exitCode, linuxJson, macosJson, windowsJson,
                   disk, fs, desktop, dirState, ei, hl, ops, envVars>>

-----------------------------------------------------------------------------
(* files: what the script can observe of an image file *)

\* fmt is the binary format of the bytes, enc the encoder that produced them
\* ("orig": bytes from outside the script) and id the image they came from;
\* two files hold the same bytes iff the records are equal
F(fmt, w, h, alpha, enc, id) ==
    [fmt |-> fmt, w |-> w, h |-> h, alpha |-> alpha, enc |-> enc, id |-> id]

existsSync(p) == p \in DOMAIN fs

Put(f, p, c) == [x \in DOMAIN f \cup {p} |-> IF x = p THEN c ELSE f[x]]

Writable(ds, p) == ds[DirOf(p)] = "ok"

\* sharp(input) can decode PNG and JPEG; whether it decodes an icon
\* container depends on the libvips build (magick); it never decodes junk
Decodable(c) ==
    \/ c.fmt \in {"png", "jpg"}
    \/ c.fmt \in {"ico", "icns"} /\ magick

\* mutant: fit "inside" in place of "contain": the image is scaled to fit the
\* square and is not padded to it
ResizeInside(c, size) ==
    LET fmt == IF c.fmt \in {"png", "jpg"} THEN c.fmt ELSE "png"
        long == IF c.w >= c.h THEN c.w ELSE c.h
    IN  F(fmt, (c.w * size) \div long, (c.h * size) \div long,
          fmt = "png" /\ c.alpha, "resize", c.id)

\* .resize(size, size, {fit: "contain", background: transparent}).toBuffer():
\* the output keeps the input format when sharp can write it, PNG otherwise;
\* padding a non-square image adds the alpha channel where the format has one
Resize(c, size) ==
    LET fmt == IF c.fmt \in {"png", "jpg"} THEN c.fmt ELSE "png"
    IN  F(fmt, size, size, fmt = "png" /\ (c.alpha \/ c.w # c.h), "resize", c.id)

\* .png({compressionLevel: 9}).toBuffer()
Png9(c) == F("png", c.w, c.h, c.alpha, "png9", c.id)

\* mutant: the re-encoding without ensureAlpha()
RgbaPngNoAlpha(c) == F("png", c.w, c.h, c.alpha, "rgba", c.id)

\* .ensureAlpha().png({force: true}).toBuffer()
RgbaPng(c) == F("png", c.w, c.h, TRUE, "rgba", c.id)

\* icon-gen: one ICO holding the sizes 16, 32, 48, 64, 128, 256
IcoGen(c) == F("ico", OtherSize, OtherSize, TRUE, "icongen", c.id)

-----------------------------------------------------------------------------
(* ensureIconExists *)

NoFrame ==
    [iconPath |-> "", defaultPath |-> "", ensureRgba |-> FALSE,
     iconCreated |-> FALSE, sourceFound |-> FALSE, i |-> 0,
     existed |-> FALSE, before |-> <<>>, ops0 |-> 0]

\* the frame of a call ensureIconExists(iconPath, defaultPath, _, ensureRgba)
Frame(iconPath, defaultPath, ensureRgba) ==
    [iconPath |-> iconPath, defaultPath |-> defaultPath,
     ensureRgba |-> ensureRgba, iconCreated |-> FALSE, sourceFound |-> FALSE,
     i |-> 1, existed |-> existsSync(iconPath),
     before |-> IF existsSync(iconPath) THEN <<fs[iconPath]>> ELSE <<>>,
     ops0 |-> Len(ops)]

\* mutant: the default icon tried before the known sources
possibleSourcesDefaultFirst(defaultPath) ==
    <<defaultPath, IconIcns, Icon512, Icon32Ico>>

possibleSources(defaultPath) == <<IconIcns, Icon512, Icon32Ico, defaultPath>>

\* an error thrown out of the handler: main's catch prints it and exits 1
Fatal(lg) ==
    /\ log' = Append(lg, Line("error", "configuration_failed", ""))
    /\ pc' = "exited"
    /\ exitCode' = 1

\* mutant: an unknown platform only skips the handler
unsupportedPlatformSkipped ==
    /\ pc' = "save"
    /\ UNCHANGED <<ei, log, exitCode>>

\* lines 511-513: throw new Error("Unsupported platform")
unsupportedPlatform ==
    /\ Fatal(log)
    /\ UNCHANGED ei

\* main, lines 508-518: platform lookup and the entry of the handler up to its
\* call of ensureIconExists
dispatch ==
    /\ pc = "platform"
    /\ IF platform \notin DOMAIN Platforms
       THEN unsupportedPlatform
       ELSE /\ ei' = CASE platform = "linux" ->
                            Frame(Platforms.linux.iconPath,
                                  Platforms.linux.defaultIcon, TRUE)
                       [] platform = "darwin" ->
                            Frame(Platforms.darwin.iconPath,
                                  Platforms.darwin.defaultIcon, FALSE)
                       [] platform = "win32" -> Frame(NamePng, Icon512, TRUE)
            /\ pc' = "ensure"
            /\ UNCHANGED <<exitCode, log>>
    /\ UNCHANGED <<confVars, disk, fs, desktop, dirState, hl,
                   ops, envVars>>

\* lines 263-270 and 344-346: the existence test that selects the tier
ensureIconExists ==
    /\ pc = "ensure"
    /\ IF ~existsSync(ei.iconPath)
       THEN IF Truthy("ICON") /\ StartsWith(env["ICON"], Http)
            THEN /\ pc' = "download"
                 /\ log' = Append(log, Line("log", "attempt_download", ei.iconPath))
                 /\ UNCHANGED ei
            ELSE /\ pc' = "tier3"
                 /\ UNCHANGED <<ei, log>>
       ELSE /\ ei' = [ei EXCEPT !.iconCreated = TRUE]
            /\ pc' = "post"
            /\ UNCHANGED log
    /\ UNCHANGED <<exitCode, confVars, disk, fs, desktop,
                   dirState, hl, ops, envVars>>

\* what the network can answer to axios.get(ICON)
NetBlobs ==
    {F("png", 300, 200, FALSE, "orig", "net"),
     F("jpg", 640, 480, FALSE, "orig", "net"),
     F("ico", 64, 64, TRUE, "orig", "net"),
     F("icns", 1024, 1024, TRUE, "orig", "net"),
     F("junk", 0, 0, FALSE, "orig", "net")}

\* the buffer downloadIcon writes for the response b (lines 208-232), with
\* converted = FALSE when sharp threw and the original bytes are kept
Converted(b, dest) ==
    IF ExtOf(dest) = "png"
    THEN IF Decodable(b)
         THEN [buffer |-> Png9(Resize(b, PngSize)), sharp |-> TRUE, failed |-> FALSE]
         ELSE [buffer |-> b, sharp |-> TRUE, failed |-> TRUE]
    ELSE IF ExtOf(dest) # "ico"
    THEN IF Decodable(b)
         THEN [buffer |-> Resize(b, PngSize), sharp |-> TRUE, failed |-> FALSE]
         ELSE [buffer |-> b, sharp |-> TRUE, failed |-> TRUE]
    ELSE [buffer |-> b, sharp |-> FALSE, failed |-> FALSE]

\* downloadIcon(ICON, iconPath) and lines 271-283 of its caller
downloadIcon ==
    /\ pc = "download"
    /\ \E axios \in BOOLEAN, got \in BOOLEAN, b \in NetBlobs,
          mkdirOk \in BOOLEAN :
         LET dest == ei.iconPath
             dir == DirOf(dest)
             needMkdir == dirState[dir] = "none"
             ds1 == IF needMkdir /\ mkdirOk
                    THEN [dirState EXCEPT ![dir] = "ok"] ELSE dirState
             cv == Converted(b, dest)
             ops1 == ops \o <<Op("get", dest, "net")>>
                     \o (IF needMkdir /\ mkdirOk
                         THEN <<Op("mkdir", dir, "")>> ELSE <<>>)
             ops2 == ops1 \o (IF cv.sharp THEN <<Op("sharp", dest, "net")>> ELSE <<>>)
             lg2 == IF cv.failed
                    THEN Append(log, Line("warn", "conversion_failed", dest))
                    ELSE log
         IN  IF ~axios
             THEN \* no HTTP client: "Cannot download icon"
                  /\ log' = log \o <<Line("error", "no_axios", dest),
                                     Line("warn", "download_failed", dest)>>
                  /\ UNCHANGED <<fs, dirState, ops, ei>>
             ELSE IF ~got
             THEN \* axios.get rejected
                  /\ log' = log \o <<Line("error", "download_error", dest),
                                     Line("warn", "download_failed", dest)>>
                  /\ ops' = Append(ops, Op("get", dest, "net"))
                  /\ UNCHANGED <<fs, dirState, ei>>
             ELSE IF needMkdir /\ ~mkdirOk
             THEN \* mkdirSync threw: caught by the outer catch
                  /\ log' = log \o <<Line("error", "download_error", dest),
                                     Line("warn", "download_failed", dest)>>
                  /\ ops' = Append(ops, Op("get", dest, "net"))
                  /\ UNCHANGED <<fs, dirState, ei>>
             ELSE IF ~Writable(ds1, dest)
             THEN \* writeFileSync threw: caught by the outer catch
                  /\ log' = lg2 \o <<Line("error", "download_error", dest),
                                     Line("warn", "download_failed", dest)>>
                  /\ ops' = ops2
                  /\ dirState' = ds1
                  /\ UNCHANGED <<fs, ei>>
             ELSE /\ fs' = Put(fs, dest, cv.buffer)
                  /\ dirState' = ds1
                  /\ ops' = Append(ops2, Op("write", dest, "net"))
                  /\ log' = lg2 \o <<Line("log", "downloaded", dest)>>
                  /\ ei' = [ei EXCEPT !.iconCreated = TRUE]
    /\ pc' = IF ei.iconPath \in DOMAIN fs' THEN "post" ELSE "tier3"
    /\ UNCHANGED <<exitCode, confVars, disk, desktop, hl, envVars>>

\* one iteration of the loop over possibleSources, lines 293-335
deriveFromSource ==
    /\ pc = "tier3"
    /\ LET dest == ei.iconPath
           source == possibleSources(ei.defaultPath)[ei.i]
           next == IF ei.i = Len(possibleSources(ei.defaultPath))
                   THEN "tier4" ELSE "tier3"
       IN  IF ~existsSync(source)
           THEN /\ ei' = [ei EXCEPT !.i = @ + 1]
                /\ pc' = next
                /\ UNCHANGED <<fs, ops, log>>
           ELSE LET found == Append(log, Line("log", "found_source", dest))
                    isIco == ExtOf(dest) = "ico"
                    isPng == ExtOf(dest) = "png"
                    size == IF isPng THEN PngSize ELSE OtherSize
                    raster == Resize(fs[source], size)
                    buffer == IF isPng THEN Png9(raster) ELSE raster
                    ops1 == IF isIco THEN ops
                            ELSE Append(ops, Op("sharp", dest, source))
                    threw == IF isIco THEN ~Writable(dirState, dest)
                             ELSE \/ ~Decodable(fs[source])
                                  \/ ~Writable(dirState, dest)
                IN  IF threw
                    THEN /\ log' = Append(found, Line("warn", "generate_failed", dest))
                         /\ ops' = ops1
                         /\ ei' = [ei EXCEPT !.i = @ + 1]
                         /\ pc' = next
                         /\ UNCHANGED fs
                    ELSE /\ fs' = Put(fs, dest, IF isIco THEN fs[source] ELSE buffer)
                         /\ ops' = Append(ops1, Op(IF isIco THEN "copy" ELSE "write",
                                                   dest, source))
                         /\ log' = Append(found, Line("log", "generated", dest))
                         /\ ei' = [ei EXCEPT !.iconCreated = TRUE,
                                             !.sourceFound = TRUE]
                         /\ pc' = "post"
    /\ UNCHANGED <<exitCode, confVars, disk, desktop, dirState,
                   hl, envVars>>

\* lines 337-342: the final fallback; copyFileSync is outside any try block
copyDefault ==
    /\ pc = "tier4"
    /\ IF ~ei.sourceFound /\ existsSync(ei.defaultPath)
       THEN LET lg == Append(log, Line("warn", "using_default", ei.iconPath))
            IN  IF Writable(dirState, ei.iconPath)
                THEN /\ fs' = Put(fs, ei.iconPath, fs[ei.defaultPath])
                     /\ ops' = Append(ops, Op("copy", ei.iconPath, ei.defaultPath))
                     /\ ei' = [ei EXCEPT !.iconCreated = TRUE]
                     /\ log' = lg
                     /\ pc' = "post"
                     /\ UNCHANGED exitCode
                ELSE /\ Fatal(lg)
                     /\ UNCHANGED <<fs, ops, ei>>
       ELSE /\ pc' = "post"
            /\ UNCHANGED <<fs, ops, ei, log, exitCode>>
    /\ UNCHANGED <<confVars, disk, desktop, dirState, hl, envVars>>

\* where the handler continues after ensureIconExists returns
AfterEnsure ==
    CASE platform = "linux" -> "linux_entry"
      [] platform = "darwin" -> "darwin_source"
      [] platform = "win32" -> "win_ico"
      [] OTHER -> "save"

\* ensureRgbaPng(iconPath): the file after the call and whether it warned
ensureRgbaPng(iconPath) ==
    IF Decodable(fs[iconPath]) /\ Writable(dirState, iconPath)
    THEN [fs |-> Put(fs, iconPath, RgbaPng(fs[iconPath])), wrote |-> TRUE]
    ELSE [fs |-> fs, wrote |-> FALSE]

\* lines 348-365: RGBA normalisation and the final validation, then return
postProcess ==
    /\ pc = "post"
    /\   LET p == ei.iconPath
             norm == ei.ensureRgba /\ ei.iconCreated /\ existsSync(p)
                     /\ ExtOf(p) = "png"
             r == ensureRgbaPng(p)
             lg1 == IF norm /\ ~r.wrote
                    THEN Append(log, Line("warn", "rgba_failed", p)) ELSE log
             ops1 == IF norm
                     THEN Append(ops, Op("sharp", p, p))
                          \o (IF r.wrote THEN <<Op("write", p, p)>> ELSE <<>>)
                     ELSE ops
             fs1 == IF norm THEN r.fs ELSE fs
         IN  /\ fs' = fs1
             /\ ops' = ops1
             /\ log' = IF p \notin DOMAIN fs1
                          /\ ~(Has("PAKE_CREATE_APP") /\ env["PAKE_CREATE_APP"] = "1")
                       THEN Append(lg1, Line("error", "failed_to_create", p))
                       ELSE lg1
    /\ pc' = AfterEnsure
    /\ UNCHANGED <<exitCode, confVars, disk, desktop, dirState,
                   ei, hl, envVars>>

-----------------------------------------------------------------------------
(* platform handlers *)

\* mutant: productName taken from CONFIG.productName instead of TITLE
updatePlatformConfigDerivedName(platformConfig, platformVars) ==
    [platformConfig EXCEPT
       !.hasBundle = TRUE,
       !.files = IF platformConfig.hasBundle THEN @ ELSE <<>>,
       !.resources = IF platformConfig.hasBundle THEN @ ELSE <<>>,
       !.icon = platformVars.icons,
       !.identifier = identifier,
       !.productName = productName]

\* mutant: the icons pushed onto bundle.icon instead of replacing it
updatePlatformConfigPush(platformConfig, platformVars) ==
    [platformConfig EXCEPT
       !.hasBundle = TRUE,
       !.files = IF platformConfig.hasBundle THEN @ ELSE <<>>,
       !.resources = IF platformConfig.hasBundle THEN @ ELSE <<>>,
       !.icon = (IF platformConfig.hasBundle THEN @ ELSE <<>>) \o platformVars.icons,
       !.identifier = identifier,
       !.productName = env["TITLE"]]

\* updatePlatformConfig(platformConfig, platformVars)
updatePlatformConfig(platformConfig, platformVars) ==
    [platformConfig EXCEPT
       !.hasBundle = TRUE,
       !.files = IF platformConfig.hasBundle THEN @ ELSE <<>>,
       !.resources = IF platformConfig.hasBundle THEN @ ELSE <<>>,
       !.icon = platformVars.icons,
       !.identifier = identifier,
       !.productName = env["TITLE"]]

\* platformHandlers.linux after ensureIconExists, lines 389-395
linuxEntry ==
    /\ pc = "linux_entry"
    /\ IF dirState["assets"] = "ok"
       THEN /\ desktop' = <<desktopEntry>>
            /\ linuxJson' = updatePlatformConfig(
                               [linuxJson EXCEPT !.files = desktopConfig],
                               Platforms.linux)
            /\ pc' = "save"
            /\ UNCHANGED <<log, exitCode>>
       ELSE \* writeFileSync of the desktop entry threw
            /\ linuxJson' = [linuxJson EXCEPT !.files = desktopConfig]
            /\ Fatal(log)
            /\ UNCHANGED desktop
    /\ UNCHANGED <<pakeJson, tauriJson, macosJson, windowsJson, disk, fs,
                   dirState, ei, hl, ops, envVars>>

macosIcons == <<Icon128, Icon256, Icon512>>

\* parseInt(iconPath.match(/(\d+)\.png$/)[1])
SizeOf(p) == CASE p = Icon128 -> 128 [] p = Icon256 -> 256 [] p = Icon512 -> 512

NoLocals == [sourceIcon |-> "", k |-> 0]

\* platformHandlers.darwin, lines 408-423: the first existing source
darwinSource ==
    /\ pc = "darwin_source"
    /\ LET possible == <<Platforms.darwin.iconPath, Icon512, Icon256, Icon128,
                         Platforms.darwin.defaultIcon>>
           found == {j \in DOMAIN possible : existsSync(possible[j])}
           first == CHOOSE j \in found : \A m \in found : j <= m
       IN  IF found = {}
           THEN /\ hl' = NoLocals
                /\ pc' = "darwin_config"
           ELSE /\ hl' = [sourceIcon |-> possible[first], k |-> 1]
                /\ pc' = "darwin_icons"
    /\ UNCHANGED <<exitCode, confVars, disk, fs, desktop, dirState, ei, log,
                   ops, envVars>>

\* one iteration of the loop over macosIcons, lines 426-444
darwinIcons ==
    /\ pc = "darwin_icons"
    /\ LET iconPath == macosIcons[hl.k]
           size == SizeOf(iconPath)
       IN  IF existsSync(iconPath)
           THEN UNCHANGED <<fs, ops, log>>
           ELSE IF Decodable(fs[hl.sourceIcon]) /\ Writable(dirState, iconPath)
           THEN /\ fs' = Put(fs, iconPath, Png9(Resize(fs[hl.sourceIcon], size)))
                /\ ops' = ops \o <<Op("sharp", iconPath, hl.sourceIcon),
                                   Op("write", iconPath, hl.sourceIcon)>>
                /\ log' = Append(log, Line("log", "generated_size", iconPath))
           ELSE /\ ops' = Append(ops, Op("sharp", iconPath, hl.sourceIcon))
                /\ log' = Append(log, Line("warn", "generate_failed", iconPath))
                /\ UNCHANGED fs
    /\ hl' = [hl EXCEPT !.k = @ + 1]
    /\ pc' = IF hl.k = Len(macosIcons) THEN "darwin_config" ELSE "darwin_icons"
    /\ UNCHANGED <<exitCode, confVars, disk, desktop, dirState, ei, envVars>>

\* line 447
darwinConfig ==
    /\ pc = "darwin_config"
    /\ macosJson' = updatePlatformConfig(macosJson, Platforms.darwin)
    /\ pc' = "save"
    /\ UNCHANGED <<exitCode, pakeJson, tauriJson, linuxJson, windowsJson, disk,
                   fs, desktop, dirState, ei, hl, log, ops, envVars>>

\* platformHandlers.win32 after ensureIconExists, lines 460-484
winIco ==
    /\ pc = "win_ico"
    /\ LET iconPath == Platforms.win32.iconPath
           defaultIcon == Platforms.win32.defaultIcon
           config == updatePlatformConfig(
                        [windowsJson EXCEPT !.resources = Platforms.win32.resources],
                        Platforms.win32)
       IN  IF existsSync(iconPath)
           THEN /\ windowsJson' = config
                /\ pc' = "save"
                /\ UNCHANGED <<fs, ops, log, exitCode>>
           ELSE \E generated \in BOOLEAN :
                LET lg == Append(log, Line("log", "generating_ico", iconPath))
                    ops1 == Append(ops, Op("icongen", iconPath, NamePng))
                    can == /\ existsSync(NamePng)
                           /\ Decodable(fs[NamePng])
                           /\ Writable(dirState, iconPath)
                    warned == Append(lg, Line("warn", "icongen_failed", iconPath))
                IN  IF generated /\ can
                    THEN /\ fs' = Put(fs, iconPath, IcoGen(fs[NamePng]))
                         /\ ops' = Append(ops1, Op("write", iconPath, NamePng))
                         /\ log' = lg
                         /\ windowsJson' = config
                         /\ pc' = "save"
                         /\ UNCHANGED exitCode
                    ELSE IF ~existsSync(defaultIcon)
                    THEN /\ log' = warned
                         /\ ops' = ops1
                         /\ windowsJson' = config
                         /\ pc' = "save"
                         /\ UNCHANGED <<fs, exitCode>>
                    ELSE IF Writable(dirState, iconPath)
                    THEN /\ fs' = Put(fs, iconPath, fs[defaultIcon])
                         /\ ops' = Append(ops1, Op("copy", iconPath, defaultIcon))
                         /\ log' = Append(warned, Line("warn", "fallback_default", iconPath))
                         /\ windowsJson' = config
                         /\ pc' = "save"
                         /\ UNCHANGED exitCode
                    ELSE \* copyFileSync threw inside the catch block
                         /\ Fatal(Append(warned, Line("warn", "fallback_default", iconPath)))
                         /\ ops' = ops1
                         /\ UNCHANGED <<fs, windowsJson>>
    /\ UNCHANGED <<pakeJson, tauriJson, linuxJson, macosJson, disk, desktop,
                   dirState, ei, hl, envVars>>

-----------------------------------------------------------------------------
(* saveConfigurations *)

\* JSON.stringify(data, null, 2) + "\n": NaN is written as null
StringifyNumber(v) == IF v.k = "nan" THEN Null ELSE v

Stringify(data) ==
    [text |-> IF "width" \in DOMAIN data
              THEN [data EXCEPT !.width = StringifyNumber(@),
                                !.height = StringifyNumber(@)]
              ELSE data,
     newline |-> TRUE]

\* the JSON import of a configuration file
Parse(file) == file.text

\* The directory of the configuration files, from which they were imported,
\* is taken to be writable.
saveConfigurations ==
    /\ pc = "save"
    /\ disk' = [pake |-> Stringify(pakeJson), tauri |-> Stringify(tauriJson),
                linux |-> Stringify(linuxJson), macos |-> Stringify(macosJson),
                windows |-> Stringify(windowsJson)]
    /\ log' = Append(log, Line("log", "complete", ""))
    /\ pc' = "exited"
    /\ exitCode' = 0
    /\ UNCHANGED <<confVars, fs, desktop, dirState, ei, hl, ops, envVars>>

-----------------------------------------------------------------------------
(* a further invocation of the script, same environment, same checkout *)

rerun ==
    /\ pc = "exited"
    /\ exitCode = 0
    /\ run < MaxRuns
    /\ run' = run + 1
    /\ pakeJson' = Parse(disk.pake)
    /\ tauriJson' = Parse(disk.tauri)
    /\ linuxJson' = Parse(disk.linux)
    /\ macosJson' = Parse(disk.macos)
    /\ windowsJson' = Parse(disk.windows)
    /\ hist' = [hist EXCEPT !.fs0 = fs, !.disk0 = disk, !.desktop0 = desktop]
    /\ pc' = "start"
    /\ ei' = NoFrame
    /\ hl' = NoLocals
    /\ log' = <<>>
    /\ ops' = <<>>
    /\ UNCHANGED <<env, platform, magick, exitCode, disk, fs, desktop, dirState>>

-----------------------------------------------------------------------------
(* initial states: the environment, the checkout and the templates *)

\* the configuration templates of the checkout (the stock application)
StockPake ==
    [url |-> "https://weekly.tw93.fun/", width |-> Num(1200),
     height |-> Num(780), fullscreen |-> FALSE, hide_title_bar |-> TRUE,
     force_internal_navigation |-> FALSE, tray_macos |-> FALSE,
     tray_linux |-> TRUE, tray_windows |-> TRUE,
     system_tray_path |-> "icons/icon.png",
     \* pake.json has no identifier and no productName property
     identifier |-> <<>>, productName |-> <<>>]

StockTauri ==
    [productName |-> "Weekly", identifier |-> "com.pake.weekly",
     trayIconPath |-> <<"png/weekly_512.png">>]

StockPlatform(icon, hasBundle) ==
    [hasBundle |-> hasBundle, icon |-> IF hasBundle THEN <<icon>> ELSE <<>>,
     files |-> <<>>, resources |-> <<>>,
     identifier |-> "com.pake.weekly", productName |-> "Weekly"]

\* values of the mandatory variables
Required ==
    [URL |-> "https://example.com", NAME |-> "Foo", TITLE |-> "Foo App",
     NAME_ZH |-> "Fu"]

Restrict(f, S) == [k \in S |-> f[k]]

\* the optional variables as the caller may set them
WindowEnv ==
    [WIDTH |-> <<"a", "b">>, HEIGHT |-> <<"6", "0", "0">>,
     FULLSCREEN |-> "", HIDE_TITLE_BAR |-> "false",
     SHOW_SYSTEM_TRAY |-> "true"]

IconUrl == <<"h", "t", "t", "p", "s", ":", "/", "/", "x", "/", "i">>
IconFile == <<".", "/", "i", ".", "p", "n", "g">>

OptionalEnvs ==
    {<<>>,
     [PAKE_CREATE_APP |-> "1"],
     [ICON |-> IconUrl],
     [ICON |-> IconUrl] @@ WindowEnv,
     [ICON |-> IconFile] @@ WindowEnv}

\* files of the checkout
StockIcns == F("icns", 1024, 1024, TRUE, "orig", "icon.icns")
Stock512 == F("png", 512, 512, FALSE, "orig", "icon_512.png")
Corrupt512 == F("junk", 0, 0, FALSE, "orig", "icon_512.png")
Stock256 == F("png", 256, 256, TRUE, "orig", "icon_256.png")
Stock128 == F("png", 128, 128, TRUE, "orig", "icon_128.png")
StockIco32 == F("ico", 32, 32, TRUE, "orig", "icon_32.ico")
StockIco256 == F("ico", 256, 256, TRUE, "orig", "icon_256.ico")
\* files the user may have put at the application's icon paths
UserPng == F("png", 512, 512, TRUE, "rgba", "user")
UserSmallPng == F("png", 256, 256, FALSE, "orig", "user")
UserJunk == F("junk", 0, 0, FALSE, "orig", "user")
UserIcns == F("icns", 1024, 1024, TRUE, "orig", "user")
UserIco == F("ico", 256, 256, TRUE, "orig", "user")

\* the contents a path may start with; {} stands for "no such file"
Choices(p) ==
    CASE p = NamePng -> {UserPng, UserSmallPng, UserJunk}
      [] p = NameIcns -> {UserIcns}
      [] p = NameIco -> {UserIco}
      [] p = IconIcns -> {StockIcns}
      [] p = Icon512 -> {Stock512, Corrupt512}
      [] p = Icon256 -> {Stock256}
      [] p = Icon128 -> {Stock128}
      [] p = Icon32Ico -> {StockIco32}
      [] p = Icon256Ico -> {StockIco256}

\* the paths a handler reads or writes
Touched(pf) ==
    CASE pf = "linux" -> {NamePng, IconIcns, Icon512, Icon32Ico}
      [] pf = "darwin" -> {NameIcns, IconIcns, Icon512, Icon32Ico, Icon256, Icon128}
      [] pf = "win32" -> {NamePng, NameIco, IconIcns, Icon512, Icon32Ico, Icon256Ico}
      [] OTHER -> {}

RECURSIVE AllFiles(_)
\* every file system over the paths P
AllFiles(P) ==
    IF P = {} THEN {<<>>}
    ELSE LET p == CHOOSE x \in P : TRUE
             rest == AllFiles(P \ {p})
         IN  rest \cup {Put(f, p, c) : f \in rest, c \in Choices(p)}

\* the two smaller stock PNGs come together
FileSystems(P) ==
    {f \in AllFiles(P) : Icon128 \in DOMAIN f <=> Icon256 \in DOMAIN f}

\* the assets the handler of a platform needs
Assets(pf) ==
    CASE pf = "linux" -> {NamePng}
      [] pf = "darwin" -> {NameIcns, Icon128, Icon256, Icon512}
      [] pf = "win32" -> {NamePng, NameIco}
      [] OTHER -> {}

\* a directory that holds a file exists; the handler of pf writes into W;
\* at most one directory is missing or not writable
DirStates(f, W) ==
    {d \in [{"png", "icons", "assets"} -> {"ok", "ro", "none"}] :
        /\ \A p \in DOMAIN f : d[DirOf(p)] # "none"
        /\ \A x \in DOMAIN d : x \notin W => d[x] = "ok"
        /\ d["assets"] # "ro"
        /\ Cardinality({x \in DOMAIN d : d[x] # "ok"}) <= 1}

WrittenDirs(pf) ==
    CASE pf = "linux" -> {"png", "assets"}
      [] pf = "darwin" -> {"png", "icons"}
      [] pf = "win32" -> {"png"}
      [] OTHER -> {}

StockFs ==
    [p \in {IconIcns, Icon512, Icon32Ico, Icon256Ico} |->
        CASE p = IconIcns -> StockIcns [] p = Icon512 -> Stock512
          [] p = Icon32Ico -> StockIco32 [] p = Icon256Ico -> StockIco256]

InitTemplates ==
    /\ pakeJson = StockPake
    /\ tauriJson = StockTauri
    /\ linuxJson = StockPlatform("png/weekly_512.png", TRUE)
    /\ windowsJson = StockPlatform("png/weekly_256.ico", TRUE)
    /\ macosJson = StockPlatform("icons/weekly.icns", TRUE)
    /\ disk = [pake |-> Stringify(pakeJson), tauri |-> Stringify(tauriJson),
               linux |-> Stringify(linuxJson), macos |-> Stringify(macosJson),
               windows |-> Stringify(windowsJson)]

InitProcess ==
    /\ pc = "start"
    /\ exitCode = 0
    /\ ei = NoFrame
    /\ hl = NoLocals
    /\ log = <<>>
    /\ ops = <<>>
    /\ run = 1
    /\ desktop = <<>>

\* Complete environments on a supported platform are explored over every
\* file system of the paths the handler touches; the runs that abort in
\* main before any handler starts are explored on the stock checkout.
Init ==
    /\ platform \in {"linux", "darwin", "win32", "freebsd"}
    /\ \E S \in SUBSET Range(requiredEnvVars), o \in OptionalEnvs :
         /\ env = Restrict(Required, S) @@ o
         /\ (S # Range(requiredEnvVars) \/ platform \notin DOMAIN Platforms)
              => (o = <<>> /\ fs = StockFs)
    /\ fs \in FileSystems(Touched(platform)) \cup {StockFs}
    /\ (fs = StockFs /\ StockFs \notin FileSystems(Touched(platform)))
         => (Missing # {} \/ platform \notin DOMAIN Platforms)
    /\ dirState \in DirStates(fs, WrittenDirs(platform))
    /\ magick \in BOOLEAN
    /\ InitTemplates
    /\ InitProcess
    /\ hist = [fs0 |-> fs, disk0 |-> disk, desktop0 |-> desktop,
               full |-> Assets(platform) \subseteq DOMAIN fs]

\* values of the optional variable k: unset, or set to one of V
Opt(k, V) == {<<>>} \cup {(k :> v) : v \in V}

WidthValues == {<<>>, <<"8", "0", "0">>, <<"1", "2", "p", "x">>, <<"a", "b">>}
HeightValues == {<<>>, <<"6", "0", "0">>}
FlagValues == {"", "true", "false"}

\* updateBaseConfigs over every combination of the optional window variables
InitBase ==
    /\ platform = "linux"
    /\ \E n \in {"Foo", "weekly"}, w \in Opt("WIDTH", WidthValues),
          h \in Opt("HEIGHT", HeightValues), f \in Opt("FULLSCREEN", FlagValues),
          t \in Opt("HIDE_TITLE_BAR", {"", "true"}),
          v \in Opt("FORCE_INTERNAL_NAVIGATION", {"", "true"}),
          y \in Opt("SHOW_SYSTEM_TRAY", FlagValues) :
         env = [Required EXCEPT !.NAME = n] @@ w @@ h @@ f @@ t @@ v @@ y
    /\ fs = StockFs
    /\ dirState = [d \in {"png", "icons", "assets"} |-> "ok"]
    /\ magick = FALSE
    /\ pakeJson \in {[StockPake EXCEPT !.system_tray_path = x] :
                       x \in {"", "icons/icon.png"}}
    /\ tauriJson \in {[StockTauri EXCEPT !.trayIconPath = x] :
                        x \in {<<>>, <<"png/weekly_512.png">>}}
    /\ linuxJson = StockPlatform("png/weekly_512.png", TRUE)
    /\ windowsJson = StockPlatform("png/weekly_256.ico", TRUE)
    /\ macosJson = StockPlatform("icons/weekly.icns", TRUE)
    /\ disk = [pake |-> Stringify(pakeJson), tauri |-> Stringify(tauriJson),
               linux |-> Stringify(linuxJson), macos |-> Stringify(macosJson),
               windows |-> Stringify(windowsJson)]
    /\ InitProcess
    /\ hist = [fs0 |-> fs, disk0 |-> disk, desktop0 |-> desktop, full |-> FALSE]

NextBase ==
    \/ validateEnvironment
    \/ updateBaseConfigs

SpecBase == InitBase /\ [][NextBase]_vars

Next ==
    \/ validateEnvironment
    \/ updateBaseConfigs
    \/ dispatch
    \/ ensureIconExists
    \/ downloadIcon
    \/ deriveFromSource
    \/ copyDefault
    \/ postProcess
    \/ linuxEntry
    \/ darwinSource
    \/ darwinIcons
    \/ darwinConfig
    \/ winIco
    \/ saveConfigurations
    \/ rerun

Spec == Init /\ [][Next]_vars

-----------------------------------------------------------------------------
(* Properties *)

Supported == platform \in {"linux", "darwin", "win32"}

\* ensureIconExists has returned to the handler and the handler has not
\* moved on yet
Returned == pc \in {"linux_entry", "darwin_source", "win_ico"}

\* the handler is past ensureIconExists
AfterReturn == pc \in {"linux_entry", "win_ico", "darwin_source",
                       "darwin_icons", "darwin_config", "save", "exited"}

\* the operations of the current ensureIconExists call
CallOps == {ops[j] : j \in (ei.ops0 + 1)..Len(ops)}

Logged(msg, about) ==
    \E j \in DOMAIN log : log[j].msg = msg /\ log[j].about = about

Succeeded == pc = "exited" /\ exitCode = 0

\* the configuration file of the active platform
ActiveFile ==
    CASE platform = "linux" -> disk.linux
      [] platform = "darwin" -> disk.macos
      [] platform = "win32" -> disk.windows

\* C1: when a mandatory variable is missing or the platform is not
\* linux/darwin/win32, the run never gets past main's checks, it ends with
\* exit status 1, and the configuration files, the icon files and the
\* desktop entry are what they were when the run started.
C1_FatalAbortLeavesDiskUntouched ==
    (Missing # {} \/ ~Supported) =>
        /\ disk = hist.disk0
        /\ fs = hist.fs0
        /\ desktop = hist.desktop0
        /\ ops = <<>>
        /\ pc \in {"start", "base", "platform", "exited"}
        /\ Missing # {} => pc \in {"start", "exited"}
        /\ pc = "exited" => exitCode = 1

\* C1 witness: an unsupported platform aborted after updateBaseConfigs had
\* already edited the in-memory configuration, and the file is untouched.
C1_Witness ==
    /\ pc = "exited"
    /\ exitCode = 1
    /\ Missing = {}
    /\ platform = "freebsd"
    /\ tauriJson.identifier = "com.pake.Foo"
    /\ Parse(disk.tauri).identifier = "com.pake.weekly"

\* C2 as stated: a call of ensureIconExists that finds its target leaves
\* the bytes of the target unchanged and performs no download and no
\* conversion.
C2_ExistingIconIsNoOp ==
    (Returned /\ ei.existed) =>
        /\ fs[ei.iconPath] = ei.before[1]
        /\ \A o \in CallOps : o.op \notin {"get", "sharp"}

\* C2 amended: a call of ensureIconExists that finds its target performs no
\* download, no derivation and no copy; without ensureRgba, or for a target
\* that is not a .png, the file is untouched; with ensureRgba and a .png
\* target the only operation is the RGBA normalisation, which rewrites the
\* file as a PNG with an alpha channel of the same image and dimensions, or
\* warns and leaves the file as it was.
C2_ExistingIconOnlyNormalised ==
    (Returned /\ ei.existed) =>
        LET p == ei.iconPath
            b == ei.before[1]
        IN  /\ \A o \in CallOps :
                  o.op \in {"sharp", "write"} /\ o.path = p /\ o.src = p
            /\ (~ei.ensureRgba \/ ExtOf(p) # "png") =>
                  (fs[p] = b /\ CallOps = {})
            /\ (ei.ensureRgba /\ ExtOf(p) = "png") =>
                  \/ /\ fs[p].fmt = "png"
                     /\ fs[p].alpha
                     /\ fs[p].w = b.w /\ fs[p].h = b.h /\ fs[p].id = b.id
                  \/ fs[p] = b /\ Logged("rgba_failed", p)

\* C2 witness: an existing PNG without alpha channel was rewritten by the
\* normalisation.
C2_Witness ==
    /\ Returned
    /\ ei.existed
    /\ ei.ensureRgba
    /\ ei.before[1] = UserSmallPng
    /\ fs[ei.iconPath] # ei.before[1]

\* C3: no .ico or .icns file on disk is the output of the resize/re-encode
\* raster path; such a file holds bytes copied from its source.
C3_CompositeNeverReencoded ==
    \A p \in DOMAIN fs :
        ExtOf(p) \in {"ico", "icns"} => fs[p].enc \notin {"resize", "png9", "rgba"}

\* C4: when the run completes (outside creation mode, PAKE_CREATE_APP=1,
\* which silences the final error), every icon the active platform's
\* descriptor references either exists in the format of its extension, or a
\* warning or an error was logged for it.
C4_IconExistsOrFailureLogged ==
    (Succeeded /\ Supported /\ ~Has("PAKE_CREATE_APP")) =>
        \A j \in DOMAIN Platforms[platform].icons :
            LET p == Platforms[platform].icons[j]
            IN  \/ p \in DOMAIN fs /\ fs[p].fmt = ExtOf(p)
                \/ \E n \in DOMAIN log :
                      log[n].about = p /\ log[n].lvl \in {"warn", "error"}

\* C5 as stated: after a successful run identifier and productName are the
\* same in pake.json, tauri.conf.json and the active platform's file, and
\* identifier is "com.pake." + NAME in each.
C5_IdentityInAllThreeConfigs ==
    Succeeded =>
        LET a == Parse(ActiveFile)
            t == Parse(disk.tauri)
            k == Parse(disk.pake)
        IN  /\ t.identifier = "com.pake." \o env["NAME"]
            /\ a.identifier = t.identifier
            /\ k.identifier = <<t.identifier>>
            /\ a.productName = t.productName
            /\ k.productName = <<t.productName>>

\* C5 amended: after a successful run identifier is "com.pake." + NAME and
\* productName is TITLE in both tauri.conf.json and the active platform's
\* file; the script leaves identifier and productName of pake.json as they
\* were in the file it read (the stock pake.json has neither).
C5_IdentityInTauriAndPlatform ==
    Succeeded =>
        LET a == Parse(ActiveFile)
            t == Parse(disk.tauri)
            k == Parse(disk.pake)
        IN  /\ t.identifier = "com.pake." \o env["NAME"]
            /\ a.identifier = "com.pake." \o env["NAME"]
            /\ t.productName = env["TITLE"]
            /\ a.productName = env["TITLE"]
            /\ k.identifier = Parse(hist.disk0.pake).identifier
            /\ k.productName = Parse(hist.disk0.pake).productName

\* C5 witness: a completed darwin run
C5_Witness ==
    /\ Succeeded
    /\ platform = "darwin"
    /\ run = 1
    /\ Parse(disk.macos).identifier = "com.pake.Foo"
    /\ Parse(disk.macos).productName = "Foo App"
    /\ Parse(disk.tauri).productName = "Foo App"
    /\ Parse(disk.pake).identifier = <<>>

\* C6: on a supported platform with the four mandatory variables set (and
\* the desktop entry's directory in place), whatever fails inside icon
\* resolution, the process exits with status 0.
C6_IconFailuresNeverFatal ==
    (pc = "exited" /\ Missing = {} /\ Supported /\ dirState["assets"] = "ok")
        => exitCode = 0

\* C7 as stated: when the first run started with every asset of the
\* platform present, the second run leaves the configuration files as the
\* first run wrote them and writes, re-encodes or copies no icon file.
C7_SecondRunTouchesNothing ==
    (run >= 2 /\ Succeeded /\ hist.full) =>
        /\ disk = hist.disk0
        /\ ops = <<>>

\* C7 amended: when the first run started with every asset of the platform
\* present, a later run leaves the configuration files as the previous run
\* wrote them and performs no download, no derivation, no copy and no ICO
\* generation; its only icon operation is the RGBA normalisation of
\* NAME_512.png on linux and win32 (none at all on darwin).
C7_SecondRunOnlyNormalises ==
    (run >= 2 /\ Succeeded /\ hist.full) =>
        /\ disk = hist.disk0
        /\ \A j \in DOMAIN ops :
              /\ ops[j].op \in {"sharp", "write"}
              /\ ops[j].path = NamePng
              /\ ops[j].src = NamePng
              /\ platform \in {"linux", "win32"}

\* C7 witness: a second linux run that normalised the existing PNG again
C7_Witness ==
    /\ run = 2
    /\ Succeeded
    /\ hist.full
    /\ platform = "linux"
    /\ Len(ops) = 2
    /\ disk = hist.disk0
    /\ Parse(disk.pake).width = Null

\* the run wrote the path p from another image (download or derivation)
\* and no conversion failure was logged for it
ResizedFromSource(p) ==
    /\ \E j \in DOMAIN ops :
          ops[j].op = "write" /\ ops[j].path = p /\ ops[j].src # p
    /\ ~Logged("conversion_failed", p)

Derivable(s, p) ==
    /\ s \in DOMAIN fs
    /\ \/ fs[s].fmt \in {"png", "jpg"}
       \/ fs[s].fmt \in {"ico", "icns"} /\ magick
    /\ dirState[DirOf(p)] = "ok"

\* C9 as stated: with no ICON and no file at the target, the call downloads
\* nothing and a file that it leaves at the target was produced by tier 4,
\* as a verbatim copy of the default icon, not by the tier-3 conversion.
C9_NoSourceEndsWithDefaultCopy ==
    (Returned /\ ~ei.existed /\ ~Has("ICON") /\ ei.iconPath \in DOMAIN fs) =>
        /\ \A o \in CallOps : o.op # "get"
        /\ \E o \in CallOps :
              o.op = "copy" /\ o.path = ei.iconPath /\ o.src = ei.defaultPath
        /\ \A o \in CallOps :
              ~(o.op = "write" /\ o.path = ei.iconPath /\ o.src # ei.iconPath)

\* C9 amended: with no ICON and no file at the target, the call downloads
\* nothing; the target is derived (resized and re-encoded) from the first of
\* icon.icns, icon_512.png, icon_32.ico and the default icon that exists and
\* converts, and then the default is not copied; only when none of them
\* converts is the default icon copied verbatim, if it exists, and otherwise
\* no file is produced.
C9_NoSourceTierOrder ==
    (Returned /\ ~ei.existed /\ ~Has("ICON")) =>
        LET p == ei.iconPath
            srcs == <<IconIcns, Icon512, Icon32Ico, ei.defaultPath>>
            good == {j \in 1..4 : Derivable(srcs[j], p)}
            first == CHOOSE j \in good : \A m \in good : j <= m
            copied == \E o \in CallOps :
                         o.op = "copy" /\ o.path = p /\ o.src = ei.defaultPath
            derived(s) == \E o \in CallOps :
                             o.op = "write" /\ o.path = p /\ o.src = s
        IN  /\ \A o \in CallOps : o.op # "get"
            /\ good # {} =>
                  /\ derived(srcs[first])
                  /\ ~copied
                  /\ fs[p].id = fs[srcs[first]].id
                  /\ fs[p].enc # "orig"
            /\ good = {} =>
                  /\ \A s \in DOMAIN fs : ~derived(s)
                  /\ copied <=> ei.defaultPath \in DOMAIN fs
                  /\ p \in DOMAIN fs <=> copied
                  /\ copied => \/ fs[p] = fs[ei.defaultPath]
                               \/ /\ fs[p].id = fs[ei.defaultPath].id
                                  /\ fs[p].enc = "rgba"

\* C9 witness: every known source failed to convert and the default icon
\* was copied verbatim
C9_Witness ==
    /\ Returned
    /\ ~ei.existed
    /\ ~Has("ICON")
    /\ Logged("generate_failed", ei.iconPath)
    /\ Logged("using_default", ei.iconPath)
    /\ fs[ei.iconPath] = fs[ei.defaultPath]

\* the variable k is set to a non-empty string
Given(k) == k \in DOMAIN env /\ Len(env[k]) > 0

\* the step of updateBaseConfigs
BaseStep == pc = "base" /\ pc' = "platform"

\* what updateBaseConfigs leaves in the fields of pake.json when the
\* optional variables selected by sel override them
Overridden(sel(_)) ==
    /\ pakeJson'.width =
          IF sel("WIDTH") THEN parseInt(env["WIDTH"]) ELSE pakeJson.width
    /\ pakeJson'.height =
          IF sel("HEIGHT") THEN parseInt(env["HEIGHT"]) ELSE pakeJson.height
    /\ pakeJson'.fullscreen =
          IF sel("FULLSCREEN") THEN env["FULLSCREEN"] = "true"
          ELSE pakeJson.fullscreen
    /\ pakeJson'.hide_title_bar =
          IF sel("HIDE_TITLE_BAR") THEN env["HIDE_TITLE_BAR"] = "true"
          ELSE pakeJson.hide_title_bar
    /\ pakeJson'.force_internal_navigation =
          IF sel("FORCE_INTERNAL_NAVIGATION")
          THEN env["FORCE_INTERNAL_NAVIGATION"] = "true"
          ELSE pakeJson.force_internal_navigation
    /\ \A f \in {"tray_macos", "tray_linux", "tray_windows"} :
          pakeJson'[f] =
             IF sel("SHOW_SYSTEM_TRAY") THEN env["SHOW_SYSTEM_TRAY"] = "true"
             ELSE pakeJson[f]

AlwaysSet ==
    /\ pakeJson'.url = env["URL"]
    /\ tauriJson'.productName = env["TITLE"]
    /\ tauriJson'.identifier = "com.pake." \o env["NAME"]

\* C10 as stated: updateBaseConfigs sets a field from its optional variable
\* whenever the variable is present, keeps it when the variable is absent,
\* and always sets the URL, the product title and the identifier.
C10_PresentOverrides ==
    [][BaseStep => (Overridden(Has) /\ AlwaysSet)]_vars

\* C10 amended: updateBaseConfigs sets a field from its optional variable
\* when the variable is set to a non-empty string (WIDTH "800" gives 800)
\* and keeps the field when the variable is unset or empty; it always sets
\* the URL, the product title and the identifier.
C10_NonEmptyOverrides ==
    [][BaseStep =>
         /\ Overridden(Given)
         /\ AlwaysSet
         /\ (Has("WIDTH") /\ env["WIDTH"] = <<"8", "0", "0">>)
               => pakeJson'.width = Num(800)]_vars

\* C10 witness: WIDTH set but empty kept the width, HEIGHT=600 replaced the
\* height and FULLSCREEN=false cleared the flag
C10_Witness ==
    /\ pc = "platform"
    /\ Has("WIDTH") /\ env["WIDTH"] = <<>>
    /\ pakeJson.width = Num(1200)
    /\ Has("HEIGHT") /\ pakeJson.height = Num(600)
    /\ ~Has("SHOW_SYSTEM_TRAY") /\ pakeJson.tray_macos = FALSE
    /\ pakeJson.tray_linux = TRUE
    /\ pakeJson.url = "https://example.com"

====
